---- MODULE Spec2Model ----
(***************************************************************************)
(* Websocket session handlers and the word/audio streaming synchronizer of *)
(* the sales-agent servers (server.py, voice_server.py).                   *)
(*                                                                         *)
(* A text is a sequence of one-character strings.  One handler task runs   *)
(* per connection; an action is what the task does between two awaits:     *)
(* the awaited operation completes (or raises) and the synchronous code    *)
(* up to the next await runs.                                              *)
(***************************************************************************)
EXTENDS Integers, Sequences, FiniteSets, TLC

\* ------------------------------------------------------------------ bounds

\* Longest response text handed to stream_response_with_audio in SpecStream.
MaxLen == 4
\* Inbound frames one connection delivers before the client stops sending.
MaxFrames == 2
\* Inbound frames one connection delivers in SpecMulti.
MaxFramesMulti == 1
\* Largest number of items the cart tools are asked to put in the cart.
MaxQuantity == 3

\* ------------------------------------------------------- characters, texts

\* Characters str.strip(), str.split() and the regex class \s treat as whitespace.
Whitespace == {" ", "\n", "\t"}
\* The characters of the lookbehind class [.!?].
SentenceEnd == {".", "!", "?"}
\* The characters response texts are drawn from: a letter, a blank, a sentence
\* terminal and a decoration character.
Alphabet == {"a", " ", ".", "*"}

RECURSIVE TextsOfLen(_)
TextsOfLen(n) ==
    IF n = 0 THEN {<<>>}
    ELSE {Append(t, ch) : t \in TextsOfLen(n - 1), ch \in Alphabet}

Texts == UNION {TextsOfLen(n) : n \in 0..MaxLen}

\* str.replace(old, ""): the non-overlapping occurrences of old, left to right.
RECURSIVE Remove(_, _)
Remove(s, old) ==
    IF Len(s) < Len(old) THEN s
    ELSE IF SubSeq(s, 1, Len(old)) = old
         THEN Remove(SubSeq(s, Len(old) + 1, Len(s)), old)
         ELSE <<Head(s)>> \o Remove(Tail(s), old)

\* The backquote character (a TLA+ string cannot hold it): one element of a text.
Backquote == "BACKQUOTE"

\* clean_text = text.replace("**", "").replace("*", "").replace("#", "").replace(<backquote>, "")
CleanText(text) ==
    Remove(Remove(Remove(Remove(text, <<"*", "*">>), <<"*">>), <<"#">>), <<Backquote>>)

RECURSIVE LStrip(_)
LStrip(s) == IF s # <<>> /\ Head(s) \in Whitespace THEN LStrip(Tail(s)) ELSE s

RECURSIVE RStrip(_)
RStrip(s) ==
    IF s # <<>> /\ s[Len(s)] \in Whitespace THEN RStrip(SubSeq(s, 1, Len(s) - 1)) ELSE s

\* str.strip()
Strip(s) == LStrip(RStrip(s))

\* Variant: the test is content == "", without strip().
IsBlankNoStrip(s) == s = <<>>

\* not s.strip()
IsBlank(s) == Strip(s) = <<>>

\* First index >= i of s that holds no whitespace, Len(s) + 1 when there is none.
RECURSIVE SkipWhitespace(_, _)
SkipWhitespace(s, i) ==
    IF i <= Len(s) /\ s[i] \in Whitespace THEN SkipWhitespace(s, i + 1) ELSE i

\* re.split(r'(?<=[.!?])\s+', s) from index i on, cur the fragment read so far.
RECURSIVE ReSplit(_, _, _)
ReSplit(s, i, cur) ==
    IF i > Len(s) THEN <<cur>>
    ELSE IF s[i] \in Whitespace /\ i > 1 /\ s[i - 1] \in SentenceEnd
         THEN <<cur>> \o ReSplit(s, SkipWhitespace(s, i), <<>>)
         ELSE ReSplit(s, i + 1, Append(cur, s[i]))

\* sentences = re.split(r'(?<=[.!?])\s+', clean_text)
SplitSentences(s) == ReSplit(s, 1, <<>>)

\* str.split() from index i on, cur the word read so far.
RECURSIVE SplitFrom(_, _, _)
SplitFrom(s, i, cur) ==
    IF i > Len(s) THEN (IF cur = <<>> THEN <<>> ELSE <<cur>>)
    ELSE IF s[i] \in Whitespace
         THEN (IF cur = <<>> THEN <<>> ELSE <<cur>>) \o SplitFrom(s, i + 1, <<>>)
         ELSE SplitFrom(s, i + 1, Append(cur, s[i]))

\* words = sentence.split()
SplitWords(s) == SplitFrom(s, 1, <<>>)

\* word + (" " if i < len(words) - 1 else ""), i counted from 1 here.
WordText(words, i) == words[i] \o (IF i < Len(words) THEN <<" ">> ELSE <<>>)

\* ------------------------------------------------------------ the program

\* The connections (one websocket object each).
Conns == {"c1", "c2", "c3"}

\* The connection that Spec and SpecStream run alone.
Solo == {"c1"}
\* The endpoints: server.py /ws, voice_server.py /ws/text and /ws/voice.
Kinds == {"ws", "text", "voice"}

\* Texts a client sends in the frame's text field ("message" or "content"); a
\* frame without the field reads as the default "".
FrameTexts == {<<>>, <<" ">>, <<"a">>, <<" ", "a">>}
\* Inbound frames: a JSON object with the text field, a frame that is no JSON
\* (json.loads raises), a JSON object whose text field is no string (.strip raises).
Frames ==
    {[kind |-> "json", content |-> t] : t \in FrameTexts}
        \cup {[kind |-> "badjson", content |-> <<>>], [kind |-> "nonstr", content |-> <<>>]}

\* Answers the agent returns in Spec: one sentence, and two sentences with decoration.
Responses == {<<"a">>, <<"*", "a", ".", " ", "a">>}

\* Exceptions a send on a closed transport raises (which one depends on the
\* installed websocket stack).
SendErrors == {"WebSocketDisconnect", "RuntimeError"}

VARIABLES
    pc,             \* per connection: where its handler task is
    kind,           \* per connection: the endpoint that serves it
    transport,      \* per connection: "none", "open" or "closed" (by the client)
    conversations,  \* the process-wide map session id -> transcript
    sent,           \* per connection: events delivered since the last frame was read
    frame,          \* per connection: the last frame read
    framesRead,     \* per connection: number of frames read
    agentInput,     \* per connection: the input of the last Runner.run call
    agentCalls,     \* per connection: number of Runner.run calls
    err,            \* per connection: the exception raised in the current loop pass
    text,           \* per connection: response_content / the text being streamed
    sret,           \* per connection: who called stream_response_with_audio
    sidx,           \* per connection: index of the sentence being streamed
    widx,           \* per connection: index of the word being sent
    ttsLog,         \* per connection: speech calls of the current stream call
    sendFailures,   \* per connection: number of sends that raised
    shopping_cart   \* agent.py: the one cart of the server.py process

streamVars == <<text, sret, sidx, widx, ttsLog>>
agentVars == <<agentInput, agentCalls>>
frameVars == <<frame, framesRead>>
vars ==
    <<pc, kind, transport, conversations, sent, frame, framesRead, agentInput,
      agentCalls, err, text, sret, sidx, widx, ttsLog, sendFailures,
      shopping_cart>>

\* The process that serves an endpoint: /ws is server.py, /ws/text and /ws/voice
\* are voice_server.py.
Server(k) == IF k = "ws" THEN "server" ELSE "voice_server"

\* session_id = str(id(websocket)): the address of the websocket object. An
\* address is free again once its object is gone, so c3, a connection made
\* later, gets the address c1 had.
SessionId(c) == IF c = "c3" THEN "c1" ELSE c

\* id(websocket) is unique among the objects alive in one process: two
\* connections share a session id only if the handler of the other one has
\* ended, and the same map only if the same process serves them.
IdFree(c, k) ==
    \A d \in Conns \ {c} :
        SessionId(d) = SessionId(c) =>
            \/ pc[d] = "idle"
            \/ pc[d] \in {"done", "crashed"} /\ Server(kind[d]) = Server(k)

\* Variant: the session starts with the welcome recorded as an assistant message.
OpenSessionWithWelcome(conv, sid) ==
    [d \in DOMAIN conv \cup {sid} |->
        IF d = sid THEN <<[role |-> "assistant", content |-> <<"a">>]>> ELSE conv[d]]

\* conversations[session_id] = []
OpenSession(conv, sid) ==
    [d \in DOMAIN conv \cup {sid} |-> IF d = sid THEN <<>> ELSE conv[d]]

\* if session_id in conversations: del conversations[session_id]
CloseSession(conv, sid) == [d \in DOMAIN conv \ {sid} |-> conv[d]]

\* Variant: the user message is put in front of the transcript.
AppendUserInFront(conv, sid, content) ==
    [conv EXCEPT ![sid] = <<[role |-> "user", content |-> content]>> \o @]

\* Variant: the user message is not recorded when the frame is read.
AppendUserSkipped(conv, sid, content) == conv

\* conversations[session_id].append({"role": "user", "content": content})
AppendUser(conv, sid, content) ==
    [conv EXCEPT ![sid] = Append(@, [role |-> "user", content |-> content])]

\* Variant: the answer is recorded twice.
AppendAssistantTwice(conv, sid, content) ==
    [conv EXCEPT ![sid] = @ \o <<[role |-> "assistant", content |-> content],
                                 [role |-> "assistant", content |-> content]>>]

\* Variant: the answer is recorded with the role of the append above it.
AppendAssistantAsUser(conv, sid, content) ==
    [conv EXCEPT ![sid] = Append(@, [role |-> "user", content |-> content])]

\* conversations[session_id].append({"role": "assistant", "content": response_content})
AppendAssistant(conv, sid, content) ==
    [conv EXCEPT ![sid] = Append(@, [role |-> "assistant", content |-> content])]

\* Variant: the agent is given the current user message alone.
AgentInputLastOnly(conv, sid) == <<conv[sid][Len(conv[sid])]>>

\* Runner.run(agent, input=conversations[session_id]): the whole transcript.
AgentInput(conv, sid) == conv[sid]

\* The fixed welcome text of each endpoint, shortened: two sentences.
WelcomeText(k) ==
    IF k = "voice" THEN <<"a", "!", " ", "a", " ", "a", ".">>
    ELSE <<"a", "!", " ", "a", "?">>

\* Variant: the stop indicator is sent with the content of the start indicator.
IndicatorEventAlwaysOn(k, on) ==
    [type |-> IF k = "voice" THEN "processing" ELSE "typing", content |-> TRUE]

\* {"type": "typing" | "processing", "content": on}
IndicatorEvent(k, on) ==
    [type |-> IF k = "voice" THEN "processing" ELSE "typing", content |-> on]

\* {"type": "assistant", "content": content}
AssistantEvent(content) == [type |-> "assistant", content |-> content]

\* {"type": "error", "content": <wrapper text around str(e)>}
ErrorEvent(k, e) == [type |-> "error", content |-> <<"error", e>>]

\* {"type": "stream_start", "content": ""}
StreamStartEvent == [type |-> "stream_start", content |-> <<>>]

\* Variant: the index field counts the words from 1.
WordEventFromOne(words, i, delay) ==
    [type |-> "stream_word", word |-> WordText(words, i), index |-> i, delay |-> delay]

\* {"type": "stream_word", "word": ..., "index": i, "delay": delay}
WordEvent(words, i, delay) ==
    [type |-> "stream_word", word |-> WordText(words, i), index |-> i - 1, delay |-> delay]

\* {"type": "stream_audio", "audio": <speech of the sentence>, "format": "mp3", "wordCount": len(words)}
AudioEvent(sentence, words) ==
    [type |-> "stream_audio", audio |-> sentence, format |-> "mp3", wordCount |-> Len(words)]

\* {"type": "stream_end", "fullText": text}
StreamEndEvent(t) == [type |-> "stream_end", fullText |-> t]

\* word_duration_ms = 350
WordDurationMs == 350

\* Variant: the fallback reuses word_duration_ms.
FallbackDelaySameAsSpeech == WordDurationMs

\* "delay": 100 of the fallback
FallbackDelayMs == 100

Init ==
    /\ pc = [c \in Conns |-> "idle"]
    /\ kind = [c \in Conns |-> "none"]
    /\ transport = [c \in Conns |-> "none"]
    /\ conversations = <<>>
    /\ sent = [c \in Conns |-> <<>>]
    /\ frame = [c \in Conns |-> [kind |-> "none", content |-> <<>>]]
    /\ framesRead = [c \in Conns |-> 0]
    /\ agentInput = [c \in Conns |-> <<>>]
    /\ agentCalls = [c \in Conns |-> 0]
    /\ err = [c \in Conns |-> "none"]
    /\ text = [c \in Conns |-> <<>>]
    /\ sret = [c \in Conns |-> "none"]
    /\ sidx = [c \in Conns |-> 0]
    /\ widx = [c \in Conns |-> 0]
    /\ ttsLog = [c \in Conns |-> <<>>]
    /\ sendFailures = [c \in Conns |-> 0]
    /\ shopping_cart = <<>>

\* await websocket.send_json(ev) on an open transport.
SendOk(c, ev) ==
    /\ transport[c] = "open"
    /\ sent' = [sent EXCEPT ![c] = Append(@, ev)]
    /\ UNCHANGED sendFailures

\* await websocket.send_json(...) on a closed transport: it raises, and so does
\* every later send of the connection (a closed transport stays closed).
SendRaises(c) ==
    /\ transport[c] = "closed"
    /\ sendFailures' = [sendFailures EXCEPT ![c] = @ + 1]
    /\ UNCHANGED sent

\* An exception e reaches the handler's outer try: only WebSocketDisconnect is
\* caught there (and the session deleted); anything else ends the handler.
Propagate(c, e) ==
    /\ pc' = [pc EXCEPT ![c] = IF e = "WebSocketDisconnect" THEN "done" ELSE "crashed"]
    /\ conversations' =
           IF e = "WebSocketDisconnect"
           THEN CloseSession(conversations, SessionId(c))
           ELSE conversations
    /\ err' = [err EXCEPT ![c] = e]

\* An exception e leaves stream_response_with_audio: the turn's except Exception
\* catches it; around the welcome there is only the outer try.
Escape(c, e) ==
    IF sret[c] = "turn"
    THEN /\ pc' = [pc EXCEPT ![c] = "error"]
         /\ err' = [err EXCEPT ![c] = e]
         /\ UNCHANGED conversations
    ELSE Propagate(c, e)

\* ----------------------------------------------------- the session handlers

\* await websocket.accept(); session_id = ...; conversations[session_id] = [];
\* server.py also clears the cart (shopping_cart.clear()); the voice endpoint
\* goes on to stream the welcome.
Accept(c, k) ==
    /\ pc[c] = "idle"
    /\ IdFree(c, k)
    /\ shopping_cart' = IF k = "ws" THEN <<>> ELSE shopping_cart
    /\ kind' = [kind EXCEPT ![c] = k]
    /\ transport' = [transport EXCEPT ![c] = "open"]
    /\ conversations' = OpenSession(conversations, SessionId(c))
    /\ text' = [text EXCEPT ![c] = WelcomeText(k)]
    /\ IF k = "voice"
       THEN /\ pc' = [pc EXCEPT ![c] = "s_start"]
            /\ sret' = [sret EXCEPT ![c] = "welcome"]
       ELSE /\ pc' = [pc EXCEPT ![c] = "welcome"]
            /\ UNCHANGED sret
    /\ UNCHANGED <<sent, frameVars, agentVars, err, sidx, widx, ttsLog, sendFailures>>

\* Variant: the loop is entered without the welcome send.
SendWelcomeSkipped(c) ==
    /\ pc[c] = "welcome"
    /\ pc' = [pc EXCEPT ![c] = "recv"]
    /\ UNCHANGED <<kind, shopping_cart, transport, conversations, sent, frameVars,
                   agentVars, err, streamVars, sendFailures>>

\* await websocket.send_json(welcome_message)
SendWelcome(c) ==
    /\ pc[c] = "welcome"
    /\ \/ /\ SendOk(c, AssistantEvent(text[c]))
          /\ pc' = [pc EXCEPT ![c] = "recv"]
          /\ UNCHANGED <<conversations, err>>
       \/ /\ SendRaises(c)
          /\ \E e \in SendErrors : Propagate(c, e)
    /\ UNCHANGED <<kind, shopping_cart, transport, frameVars, agentVars, streamVars>>

\* data = await websocket.receive_text(); message_data = json.loads(data);
\* the text field; if not content.strip(): continue; the user message is
\* appended; the indicator send is the next await.
Receive(c, maxFrames) ==
    /\ pc[c] = "recv"
    /\ transport[c] = "open"
    /\ framesRead[c] < maxFrames
    /\ \E f \in Frames :
        /\ frame' = [frame EXCEPT ![c] = f]
        /\ framesRead' = [framesRead EXCEPT ![c] = @ + 1]
        /\ sent' = [sent EXCEPT ![c] = <<>>]
        /\ IF f.kind = "badjson"
           THEN /\ pc' = [pc EXCEPT ![c] = "crashed"]
                /\ err' = [err EXCEPT ![c] = "JSONDecodeError"]
                /\ UNCHANGED conversations
           ELSE IF f.kind = "nonstr"
           THEN /\ pc' = [pc EXCEPT ![c] = "crashed"]
                /\ err' = [err EXCEPT ![c] = "AttributeError"]
                /\ UNCHANGED conversations
           ELSE IF IsBlank(f.content)
           THEN /\ err' = [err EXCEPT ![c] = "none"]
                /\ UNCHANGED <<pc, conversations>>
           ELSE /\ conversations' = AppendUser(conversations, SessionId(c), f.content)
                /\ pc' = [pc EXCEPT ![c] = "ind_start"]
                /\ err' = [err EXCEPT ![c] = "none"]
    /\ UNCHANGED <<kind, shopping_cart, transport, agentVars, streamVars, sendFailures>>

\* await websocket.receive_text() after the client closed: WebSocketDisconnect.
ReceiveDisconnect(c) ==
    /\ pc[c] = "recv"
    /\ transport[c] = "closed"
    /\ Propagate(c, "WebSocketDisconnect")
    /\ UNCHANGED <<kind, shopping_cart, transport, sent, frameVars, agentVars, streamVars, sendFailures>>

\* await websocket.send_json(indicator true); then Runner.run(agent,
\* input=conversations[session_id]) is called.
IndicatorStart(c) ==
    /\ pc[c] = "ind_start"
    /\ \/ /\ SendOk(c, IndicatorEvent(kind[c], TRUE))
          /\ pc' = [pc EXCEPT ![c] = "agent"]
          /\ agentInput' = [agentInput EXCEPT ![c] = AgentInput(conversations, SessionId(c))]
          /\ agentCalls' = [agentCalls EXCEPT ![c] = @ + 1]
          /\ UNCHANGED <<conversations, err>>
       \/ /\ SendRaises(c)
          /\ \E e \in SendErrors : Propagate(c, e)
          /\ UNCHANGED agentVars
    /\ UNCHANGED <<kind, shopping_cart, transport, frameVars, streamVars>>

\* Runner.run returns: response_content = result.final_output is appended as the
\* assistant message; the next await is the send of the answer (the
\* stream_start send in the voice endpoint).
AgentReturn(c, responses) ==
    /\ pc[c] = "agent"
    /\ \E r \in responses :
        /\ conversations' = AppendAssistant(conversations, SessionId(c), r)
        /\ text' = [text EXCEPT ![c] = r]
    /\ IF kind[c] = "voice"
       THEN /\ pc' = [pc EXCEPT ![c] = "s_start"]
            /\ sret' = [sret EXCEPT ![c] = "turn"]
       ELSE /\ pc' = [pc EXCEPT ![c] = "respond"]
            /\ UNCHANGED sret
    /\ UNCHANGED <<kind, shopping_cart, transport, sent, frameVars, agentVars, err, sidx, widx,
                   ttsLog, sendFailures>>

\* Variant: no except Exception around Runner.run, the exception ends the handler.
AgentRaiseUncaught(c) ==
    /\ pc[c] = "agent"
    /\ Propagate(c, "AgentError")
    /\ UNCHANGED <<kind, shopping_cart, transport, sent, frameVars, agentVars,
                   streamVars, sendFailures>>

\* Runner.run raises: except Exception as e, the error send is the next await.
AgentRaise(c) ==
    /\ pc[c] = "agent"
    /\ pc' = [pc EXCEPT ![c] = "error"]
    /\ err' = [err EXCEPT ![c] = "AgentError"]
    /\ UNCHANGED <<kind, shopping_cart, transport, conversations, sent, frameVars, agentVars,
                   streamVars, sendFailures>>

\* Variant: the answer is sent by a task of its own and the loop goes on to the
\* next receive at once.
RespondInBackground(c) ==
    /\ pc[c] = "respond"
    /\ SendOk(c, AssistantEvent(text[c]))
    /\ pc' = [pc EXCEPT ![c] = "recv"]
    /\ UNCHANGED <<kind, shopping_cart, transport, conversations, frameVars, agentVars,
                   err, streamVars>>

\* await websocket.send_json({"type": "assistant", ...}) inside the turn's try.
Respond(c) ==
    /\ pc[c] = "respond"
    /\ \/ /\ SendOk(c, AssistantEvent(text[c]))
          /\ pc' = [pc EXCEPT ![c] = "ind_stop"]
          /\ UNCHANGED err
       \/ /\ SendRaises(c)
          /\ \E e \in SendErrors :
                /\ pc' = [pc EXCEPT ![c] = "error"]
                /\ err' = [err EXCEPT ![c] = e]
    /\ UNCHANGED <<kind, shopping_cart, transport, conversations, frameVars, agentVars, streamVars>>

\* await websocket.send_json({"type": "error", ...}) inside the except block.
SendError(c) ==
    /\ pc[c] = "error"
    /\ \/ /\ SendOk(c, ErrorEvent(kind[c], err[c]))
          /\ pc' = [pc EXCEPT ![c] = "ind_stop"]
          /\ UNCHANGED <<conversations, err>>
       \/ /\ SendRaises(c)
          /\ \E e \in SendErrors : Propagate(c, e)
    /\ UNCHANGED <<kind, shopping_cart, transport, frameVars, agentVars, streamVars>>

\* await websocket.send_json(indicator false), the last statement of the loop body.
IndicatorStop(c) ==
    /\ pc[c] = "ind_stop"
    /\ \/ /\ SendOk(c, IndicatorEvent(kind[c], FALSE))
          /\ pc' = [pc EXCEPT ![c] = "recv"]
          /\ UNCHANGED <<conversations, err>>
       \/ /\ SendRaises(c)
          /\ \E e \in SendErrors : Propagate(c, e)
    /\ UNCHANGED <<kind, shopping_cart, transport, frameVars, agentVars, streamVars>>

\* The client closes the connection while the handler runs.
ClientClose(c) ==
    /\ pc[c] \notin {"idle", "done", "crashed"}
    /\ transport[c] = "open"
    /\ transport' = [transport EXCEPT ![c] = "closed"]
    /\ UNCHANGED <<pc, kind, shopping_cart, conversations, sent, frameVars, agentVars, err,
                   streamVars, sendFailures>>

\* ------------------------------------------------ stream_response_with_audio

\* The sentences of the call's text.
Sentences(c) == SplitSentences(CleanText(text[c]))

\* Variant: the loop has no check for a blank sentence.
NextSentenceNoSkip(sents, i) ==
    IF i + 1 > Len(sents) THEN Len(sents) + 1 ELSE i + 1

\* The loop `for sentence in sentences` with `if not sentence.strip(): continue`:
\* the index of the first sentence after i that is not blank, Len + 1 at the end.
RECURSIVE NextSentence(_, _)
NextSentence(sents, i) ==
    IF i + 1 > Len(sents) THEN Len(sents) + 1
    ELSE IF IsBlank(sents[i + 1]) THEN NextSentence(sents, i + 1)
    ELSE i + 1

\* Variant: when no sentence is left the function returns at once, without the
\* stream_end send.
AdvanceSkipsEnd(c, i) ==
    LET j == NextSentence(Sentences(c), i) IN
    /\ sidx' = [sidx EXCEPT ![c] = j]
    /\ widx' = [widx EXCEPT ![c] = 0]
    /\ pc' = [pc EXCEPT ![c] =
                 IF j <= Len(Sentences(c)) THEN "s_tts"
                 ELSE IF sret[c] = "turn" THEN "ind_stop" ELSE "recv"]

\* The loop goes on to the sentence after the current one, or leaves for the
\* stream_end send.
Advance(c, i) ==
    LET j == NextSentence(Sentences(c), i) IN
    /\ sidx' = [sidx EXCEPT ![c] = j]
    /\ widx' = [widx EXCEPT ![c] = 0]
    /\ pc' = [pc EXCEPT ![c] = IF j <= Len(Sentences(c)) THEN "s_tts" ELSE "s_end"]

\* words = sentence.split() of the current sentence.
Words(c) == SplitWords(Sentences(c)[sidx[c]])

\* await websocket.send_json({"type": "stream_start", ...}); the sentences are
\* split and the loop reaches its first speech call.
StreamStart(c) ==
    /\ pc[c] = "s_start"
    /\ \/ /\ SendOk(c, StreamStartEvent)
          /\ ttsLog' = [ttsLog EXCEPT ![c] = <<>>]
          /\ Advance(c, 0)
          /\ UNCHANGED <<conversations, err>>
       \/ /\ SendRaises(c)
          /\ \E e \in SendErrors : Escape(c, e)
          /\ UNCHANGED <<sidx, widx, ttsLog>>
    /\ UNCHANGED <<kind, shopping_cart, transport, frameVars, agentVars, text, sret>>

\* Variant: the speech call is outside the try, so its exception leaves the function.
SynthesizeUncaught(c) ==
    /\ pc[c] = "s_tts"
    /\ \E ok \in BOOLEAN :
        /\ ttsLog' = [ttsLog EXCEPT ![c] =
                         Append(@, [input |-> Sentences(c)[sidx[c]], ok |-> ok])]
        /\ IF ok
           THEN /\ pc' = [pc EXCEPT ![c] = "s_word"]
                /\ UNCHANGED <<conversations, err>>
           ELSE Escape(c, "TTSError")
    /\ widx' = [widx EXCEPT ![c] = 1]
    /\ UNCHANGED <<kind, shopping_cart, transport, sent, frameVars, agentVars, text, sret, sidx,
                   sendFailures>>

\* await client.audio.speech.create(input=sentence, ...): it returns the audio, or
\* raises and the except block starts the fallback.
Synthesize(c) ==
    /\ pc[c] = "s_tts"
    /\ \E ok \in BOOLEAN :
        /\ ttsLog' = [ttsLog EXCEPT ![c] =
                         Append(@, [input |-> Sentences(c)[sidx[c]], ok |-> ok])]
        /\ pc' = [pc EXCEPT ![c] = IF ok THEN "s_word" ELSE "s_fword"]
    /\ widx' = [widx EXCEPT ![c] = 1]
    /\ UNCHANGED <<kind, shopping_cart, transport, conversations, sent, frameVars, agentVars, err,
                   text, sret, sidx, sendFailures>>

\* await websocket.send_json({"type": "stream_word", ..., "delay": word_duration_ms})
\* inside the try: an exception restarts the sentence in the fallback.
SendWord(c) ==
    /\ pc[c] = "s_word"
    /\ \/ /\ SendOk(c, WordEvent(Words(c), widx[c], WordDurationMs))
          /\ IF widx[c] < Len(Words(c))
             THEN /\ widx' = [widx EXCEPT ![c] = @ + 1]
                  /\ UNCHANGED pc
             ELSE /\ pc' = [pc EXCEPT ![c] = "s_audio"]
                  /\ UNCHANGED widx
       \/ /\ SendRaises(c)
          /\ pc' = [pc EXCEPT ![c] = "s_fword"]
          /\ widx' = [widx EXCEPT ![c] = 1]
    /\ UNCHANGED <<kind, shopping_cart, transport, conversations, frameVars, agentVars, err, text,
                   sret, sidx, ttsLog>>

\* await websocket.send_json({"type": "stream_audio", ...}) inside the try.
SendAudio(c) ==
    /\ pc[c] = "s_audio"
    /\ \/ /\ SendOk(c, AudioEvent(Sentences(c)[sidx[c]], Words(c)))
          /\ pc' = [pc EXCEPT ![c] = "s_sleep"]
          /\ UNCHANGED widx
       \/ /\ SendRaises(c)
          /\ pc' = [pc EXCEPT ![c] = "s_fword"]
          /\ widx' = [widx EXCEPT ![c] = 1]
    /\ UNCHANGED <<kind, shopping_cart, transport, conversations, frameVars, agentVars, err, text,
                   sret, sidx, ttsLog>>

\* await asyncio.sleep(0.1), the last statement of the try.
Sleep(c) ==
    /\ pc[c] = "s_sleep"
    /\ Advance(c, sidx[c])
    /\ UNCHANGED <<kind, shopping_cart, transport, conversations, sent, frameVars, agentVars, err,
                   text, sret, ttsLog, sendFailures>>

\* await websocket.send_json({"type": "stream_word", ..., "delay": 100}) inside
\* the except block: an exception leaves the function.
SendFallbackWord(c) ==
    /\ pc[c] = "s_fword"
    /\ \/ /\ SendOk(c, WordEvent(Words(c), widx[c], FallbackDelayMs))
          /\ IF widx[c] < Len(Words(c))
             THEN /\ widx' = [widx EXCEPT ![c] = @ + 1]
                  /\ UNCHANGED <<pc, sidx>>
             ELSE Advance(c, sidx[c])
          /\ UNCHANGED <<conversations, err>>
       \/ /\ SendRaises(c)
          /\ \E e \in SendErrors : Escape(c, e)
          /\ UNCHANGED <<sidx, widx>>
    /\ UNCHANGED <<kind, shopping_cart, transport, frameVars, agentVars, text, sret, ttsLog>>

\* await websocket.send_json({"type": "stream_end", "fullText": text}); the
\* function returns to its caller.
StreamEnd(c) ==
    /\ pc[c] = "s_end"
    /\ \/ /\ SendOk(c, StreamEndEvent(text[c]))
          /\ pc' = [pc EXCEPT ![c] = IF sret[c] = "turn" THEN "ind_stop" ELSE "recv"]
          /\ UNCHANGED <<conversations, err>>
       \/ /\ SendRaises(c)
          /\ \E e \in SendErrors : Escape(c, e)
    /\ UNCHANGED <<kind, shopping_cart, transport, frameVars, agentVars, streamVars>>

\* ------------------------------------------------------- the cart (agent.py)

\* Catalog products the cart tools are called with, each with its in_stock
\* flag: two sofas and a chair of FURNITURE_CATALOG.
InStock == [SF001 |-> TRUE, SF003 |-> FALSE, CH001 |-> TRUE]

\* product_id arguments: catalog ids, one in lower case, one of no product.
ProductArgs == {"SF001", "sf001", "SF003", "CH001", "XX000"}

\* product_id.upper()
Upper(id) == IF id = "sf001" THEN "SF001" ELSE id

\* get_item_by_id(product_id): the product's id, or "None".
get_item_by_id(id) == IF Upper(id) \in DOMAIN InStock THEN Upper(id) ELSE "None"

\* Index of the first cart entry with the id, 0 if there is none.
CartIndex(cart, id) ==
    IF \E i \in 1..Len(cart) : cart[i].id = id
    THEN CHOOSE i \in 1..Len(cart) :
             cart[i].id = id /\ \A j \in 1..(i - 1) : cart[j].id # id
    ELSE 0

RECURSIVE CartQuantity(_)
\* Number of items in the cart, all entries together.
CartQuantity(cart) ==
    IF cart = <<>> THEN 0 ELSE Head(cart).quantity + CartQuantity(Tail(cart))

\* Variant: no search for an entry of the product, an entry is always appended.
add_to_cart_always_appends(cart, product_id, quantity) ==
    LET item == get_item_by_id(product_id) IN
    IF item = "None" THEN cart
    ELSE IF ~InStock[item] THEN cart
    ELSE Append(cart, [id |-> item, quantity |-> quantity])

\* add_to_cart(product_id, quantity): nothing for an unknown or out-of-stock
\* product; the quantity is added to the product's entry if there is one, else
\* an entry is appended.
add_to_cart(cart, product_id, quantity) ==
    LET item == get_item_by_id(product_id) IN
    IF item = "None" THEN cart
    ELSE IF ~InStock[item] THEN cart
    ELSE IF CartIndex(cart, item) # 0
         THEN [cart EXCEPT ![CartIndex(cart, item)].quantity = @ + quantity]
         ELSE Append(cart, [id |-> item, quantity |-> quantity])

\* remove_from_cart(product_id): pops the first entry with the upper-cased id.
remove_from_cart(cart, product_id) ==
    LET i == CartIndex(cart, Upper(product_id)) IN
    IF i = 0 THEN cart
    ELSE SubSeq(cart, 1, i - 1) \o SubSeq(cart, i + 1, Len(cart))

\* clear_cart(): shopping_cart.clear()
clear_cart(cart) == <<>>

\* checkout(): an empty cart is left alone, any other is cleared.
checkout(cart) == IF cart = <<>> THEN cart ELSE <<>>

\* A tool call of the furniture agent while Runner.run of a /ws turn is awaited.
ToolCall(c, maxQuantity) ==
    /\ pc[c] = "agent"
    /\ kind[c] = "ws"
    /\ \/ \E id \in ProductArgs, q \in 1..maxQuantity :
              /\ CartQuantity(shopping_cart) + q <= maxQuantity
              /\ shopping_cart' = add_to_cart(shopping_cart, id, q)
       \/ \E id \in ProductArgs : shopping_cart' = remove_from_cart(shopping_cart, id)
       \/ shopping_cart' = clear_cart(shopping_cart)
       \/ shopping_cart' = checkout(shopping_cart)
    /\ UNCHANGED <<pc, kind, transport, conversations, sent, frameVars, agentVars,
                   err, streamVars, sendFailures>>

\* ------------------------------------------------------------ specifications

StreamStep(c) ==
    \/ StreamStart(c)
    \/ Synthesize(c)
    \/ SendWord(c)
    \/ SendAudio(c)
    \/ Sleep(c)
    \/ SendFallbackWord(c)
    \/ StreamEnd(c)

Next ==
    \E c \in Solo :
        \/ \E k \in Kinds : Accept(c, k)
        \/ SendWelcome(c)
        \/ Receive(c, MaxFrames)
        \/ ReceiveDisconnect(c)
        \/ IndicatorStart(c)
        \/ AgentReturn(c, Responses)
        \/ AgentRaise(c)
        \/ Respond(c)
        \/ SendError(c)
        \/ IndicatorStop(c)
        \/ StreamStep(c)
        \/ ClientClose(c)

Spec == Init /\ [][Next]_vars

\* The voice endpoint at its call stream_response_with_audio(websocket,
\* response_content), for every answer of at most MaxLen characters.
InitStream ==
    /\ pc = [c \in Conns |-> IF c \in Solo THEN "s_start" ELSE "idle"]
    /\ kind = [c \in Conns |-> IF c \in Solo THEN "voice" ELSE "none"]
    /\ transport = [c \in Conns |-> IF c \in Solo THEN "open" ELSE "none"]
    /\ \E t \in Texts : text = [c \in Conns |-> IF c \in Solo THEN t ELSE <<>>]
    /\ conversations =
           [c \in Solo |-> <<[role |-> "user", content |-> <<"a">>],
                             [role |-> "assistant", content |-> text[c]]>>]
    /\ sent = [c \in Conns |-> IF c \in Solo THEN <<IndicatorEvent("voice", TRUE)>> ELSE <<>>]
    /\ frame = [c \in Conns |-> IF c \in Solo THEN [kind |-> "json", content |-> <<"a">>]
                                 ELSE [kind |-> "none", content |-> <<>>]]
    /\ framesRead = [c \in Conns |-> IF c \in Solo THEN 1 ELSE 0]
    /\ agentInput = [c \in Conns |-> IF c \in Solo THEN <<[role |-> "user", content |-> <<"a">>]>>
                                      ELSE <<>>]
    /\ agentCalls = [c \in Conns |-> IF c \in Solo THEN 1 ELSE 0]
    /\ err = [c \in Conns |-> "none"]
    /\ sret = [c \in Conns |-> IF c \in Solo THEN "turn" ELSE "none"]
    /\ sidx = [c \in Conns |-> 0]
    /\ widx = [c \in Conns |-> 0]
    /\ ttsLog = [c \in Conns |-> <<>>]
    /\ sendFailures = [c \in Conns |-> 0]
    /\ shopping_cart = <<>>

NextStream ==
    \E c \in Solo :
        \/ StreamStep(c)
        \/ SendError(c)
        \/ IndicatorStop(c)
        \/ ClientClose(c)

SpecStream == InitStream /\ [][NextStream]_vars

\* Answers the agent returns in SpecMulti and SpecReuse: one word.
ResponsesMulti == {<<"a">>}

\* Two connections alive at once, and the endpoints that serve them without
\* streaming.
Peers == {"c1", "c2"}
PeerKinds == {"ws", "text"}

\* Two connections at once, each reading at most MaxFramesMulti frames, with
\* the cart tools called during the /ws turns.
NextMulti ==
    \E c \in Peers :
        \/ \E k \in PeerKinds : Accept(c, k)
        \/ SendWelcome(c)
        \/ Receive(c, MaxFramesMulti)
        \/ ReceiveDisconnect(c)
        \/ IndicatorStart(c)
        \/ ToolCall(c, MaxQuantity)
        \/ AgentReturn(c, ResponsesMulti)
        \/ AgentRaise(c)
        \/ Respond(c)
        \/ SendError(c)
        \/ IndicatorStop(c)
        \/ ClientClose(c)

SpecMulti == Init /\ [][NextMulti]_vars

\* server.py alone: a /ws connection whose agent runs call the cart tools.
NextCart ==
    \E c \in Solo :
        \/ Accept(c, "ws")
        \/ SendWelcome(c)
        \/ Receive(c, MaxFramesMulti)
        \/ ReceiveDisconnect(c)
        \/ IndicatorStart(c)
        \/ ToolCall(c, MaxQuantity)
        \/ AgentReturn(c, ResponsesMulti)
        \/ AgentRaise(c)
        \/ Respond(c)
        \/ SendError(c)
        \/ IndicatorStop(c)
        \/ ClientClose(c)

SpecCart == Init /\ [][NextCart]_vars

\* Two connections of which the later gets the session id of the earlier.
Reusers == {"c1", "c3"}

\* One connection after another on the same session id, on every endpoint.
NextReuse ==
    \E c \in Reusers :
        \/ \E k \in Kinds : Accept(c, k)
        \/ SendWelcome(c)
        \/ Receive(c, MaxFramesMulti)
        \/ ReceiveDisconnect(c)
        \/ IndicatorStart(c)
        \/ AgentReturn(c, ResponsesMulti)
        \/ AgentRaise(c)
        \/ Respond(c)
        \/ SendError(c)
        \/ IndicatorStop(c)
        \/ StreamStep(c)
        \/ ClientClose(c)

SpecReuse == Init /\ [][NextReuse]_vars

\* ------------------------------------------------------------------ claims

\* The transcript of connection c, empty when the map holds no entry for it.
Transcript(conv, c) == IF c \in DOMAIN conv THEN conv[c] ELSE <<>>

\* A text with a character that is not whitespace / with none.
HasVisibleChar(t) == \E i \in 1..Len(t) : t[i] \notin {" ", "\n", "\t"}

\* Number of messages of a transcript with the given role.
RoleCount(tr, role) == Cardinality({i \in 1..Len(tr) : tr[i].role = role})

\* c reads a frame in this step.
ReadsFrame(c) == framesRead'[c] = framesRead[c] + 1

\* Runner.run is called for c in this step.
InvokesAgent(c) == agentCalls'[c] = agentCalls[c] + 1

\* C1: in every handler, a frame whose text is not blank appends exactly one
\* user message, carrying that text, to the connection's transcript, and it
\* does so before the agent is invoked: the step that reads the frame appends
\* it without calling the agent, nothing else ever adds a user message, the
\* agent is called with the transcript ending in that message, and the message
\* is still in place when the agent call has returned or raised.
C1_UserAppendedBeforeAgent ==
    [][\A c \in Conns :
        /\ (ReadsFrame(c) /\ frame'[c].kind = "json" /\ HasVisibleChar(frame'[c].content))
             => /\ c \in DOMAIN conversations /\ c \in DOMAIN conversations'
                /\ conversations'[c] =
                       Append(conversations[c],
                              [role |-> "user", content |-> frame'[c].content])
                /\ ~InvokesAgent(c)
        /\ (c \in DOMAIN conversations'
              /\ RoleCount(Transcript(conversations', c), "user")
                    # RoleCount(Transcript(conversations, c), "user"))
             => /\ ReadsFrame(c)
                /\ frame'[c].kind = "json"
                /\ HasVisibleChar(frame'[c].content)
        /\ InvokesAgent(c)
             => /\ conversations' = conversations
                /\ conversations[c] # <<>>
                /\ conversations[c][Len(conversations[c])] =
                       [role |-> "user", content |-> frame[c].content]
                /\ agentInput'[c] = conversations[c]
        /\ (pc[c] = "agent" /\ pc'[c] # "agent")
             => /\ Len(conversations'[c]) >= Len(agentInput[c])
                /\ SubSeq(conversations'[c], 1, Len(agentInput[c])) = agentInput[c]
      ]_vars

\* C1 witness: the agent runs for the second frame of a voice connection whose
\* first turn was answered.
C1_Witness ==
    \E c \in Conns :
        /\ pc[c] = "agent"
        /\ kind[c] = "voice"
        /\ framesRead[c] = 2
        /\ Len(agentInput[c]) = 3
        /\ agentInput[c][3].role = "user"

\* C2: when the agent call returns, the transcript is the transcript of before
\* the return with one message added, of role assistant and holding the answer;
\* when the agent call raises, nothing is added, and nothing is added in the
\* rest of that turn, so the turn leaves the transcript as the agent was given
\* it: the earlier transcript plus the one user message.
C2_AssistantOnlyOnSuccess ==
    [][\A c \in Conns :
        /\ (pc[c] = "agent" /\ pc'[c] \in {"respond", "s_start"})
             => /\ Len(conversations'[c]) = Len(conversations[c]) + 1
                /\ SubSeq(conversations'[c], 1, Len(conversations[c])) = conversations[c]
                /\ conversations'[c][Len(conversations'[c])] =
                       [role |-> "assistant", content |-> text'[c]]
        /\ (pc[c] = "agent" /\ pc'[c] = "error")
             => /\ conversations' = conversations
                /\ conversations[c] = agentInput[c]
                /\ agentInput[c][Len(agentInput[c])].role = "user"
        /\ (pc[c] \in {"agent", "respond", "error", "ind_stop"}
              /\ c \in DOMAIN conversations'
              /\ ~(pc[c] = "agent" /\ pc'[c] \in {"respond", "s_start"}))
             => conversations'[c] = conversations[c]
      ]_vars

\* C2 witness: a turn that failed in the agent is over, after an answered turn,
\* with the unanswered user message last in the transcript.
C2_Witness ==
    \E c \in Conns :
        /\ pc[c] = "recv"
        /\ framesRead[c] = 2
        /\ err[c] = "AgentError"
        /\ Len(conversations[c]) = 3
        /\ conversations[c][2].role = "assistant"
        /\ conversations[c][3].role = "user"

\* C3: a frame whose text is empty or all whitespace is dropped silently: the
\* step that reads it leaves the transcript as it was, calls no agent, sends no
\* event and leaves the handler waiting for the next frame; a handler waiting
\* for a frame sends nothing.
C3_BlankFrameDropped ==
    [][\A c \in Conns :
        /\ (ReadsFrame(c) /\ frame'[c].kind = "json" /\ ~HasVisibleChar(frame'[c].content))
             => /\ conversations' = conversations
                /\ ~InvokesAgent(c)
                /\ sent'[c] = <<>>
                /\ pc'[c] = "recv"
        /\ (pc[c] = "recv" /\ ~ReadsFrame(c)) => sent'[c] = sent[c]
      ]_vars

\* C3 witness: a voice connection has read an all-whitespace frame after an
\* answered turn and waits for the next frame.
C3_Witness ==
    \E c \in Conns :
        /\ pc[c] = "recv"
        /\ kind[c] = "voice"
        /\ framesRead[c] = 2
        /\ frame[c] = [kind |-> "json", content |-> <<" ">>]
        /\ sent[c] = <<>>
        /\ Len(conversations[c]) = 2

\* The handler of c is not inside a turn: it waits for a frame or has ended.
TurnOver(c) == pc[c] \in {"recv", "done", "crashed"}

\* The events in sent[c] are those of a turn that sent its indicator-start.
TurnStarted(c) ==
    /\ sent[c] # <<>>
    /\ sent[c][1].type \in {"typing", "processing"}
    /\ sent[c][1].content = TRUE

\* C4: every turn that sent the indicator-start event has sent the matching
\* indicator-stop event as its last event when the turn is over, on every exit
\* path of the turn.
C4_IndicatorStopOnEveryExit ==
    \A c \in Conns :
        (TurnOver(c) /\ TurnStarted(c))
            => /\ sent[c][Len(sent[c])].type = sent[c][1].type
               /\ sent[c][Len(sent[c])].content = FALSE

\* The event types of a stream between its start and its end.
StreamBodyTypes == {"stream_start", "stream_word", "stream_audio"}

\* C5: on a voice connection the events of a turn are, in this order,
\* processing-start, then either the stream_start ... stream_end sequence or one
\* error event, then processing-end: at every moment the events sent so far in
\* the turn are a beginning of such a sequence (an error event never follows a
\* stream event, nothing follows processing-end), and when the handler is back
\* at reading frames the sequence is complete.
C5_VoiceTurnOrder ==
    \A c \in Conns :
        (kind[c] = "voice" /\ framesRead[c] >= 1 /\ sent[c] # <<>>)
            => LET s == sent[c] IN
               /\ s[1] = [type |-> "processing", content |-> TRUE]
               /\ \A i \in 2..Len(s) :
                     CASE s[i].type = "processing" ->
                              /\ s[i].content = FALSE
                              /\ i = Len(s)
                              /\ s[i - 1].type \in {"stream_end", "error"}
                       [] s[i].type \in {"error", "stream_start"} -> i = 2
                       [] s[i].type \in {"stream_word", "stream_audio", "stream_end"} ->
                              s[i - 1].type \in StreamBodyTypes
                       [] OTHER -> FALSE
               /\ pc[c] = "recv" => s[Len(s)] = [type |-> "processing", content |-> FALSE]

\* C5 witness: the second turn of a voice connection is complete, with a stream
\* of two sentences between the two indicators.
C5_Witness ==
    \E c \in Conns :
        /\ kind[c] = "voice"
        /\ pc[c] = "recv"
        /\ framesRead[c] = 2
        /\ Len(sent[c]) >= 8
        /\ sent[c][2].type = "stream_start"
        /\ sent[c][Len(sent[c]) - 1].type = "stream_end"
        /\ sent[c][Len(sent[c])] = [type |-> "processing", content |-> FALSE]

\* stream_response_with_audio, called by the turn of c, has returned.
StreamCompleted(c) == pc[c] = "ind_stop" /\ err[c] = "none"

\* The positions of the events of a type in a sequence of events.
Positions(s, type) == {i \in 1..Len(s) : s[i].type = type}

\* C6: a call of stream_response_with_audio that runs to completion has sent
\* exactly one stream_start and exactly one stream_end event, the stream_start
\* before and the stream_end after every stream_word and stream_audio event, for
\* every text (the empty one too) and every outcome of the speech calls; before
\* completion there is never more than one of either.
C6_OneStartOneEnd ==
    \A c \in Conns :
        LET s == sent[c]
            starts == Positions(s, "stream_start")
            ends == Positions(s, "stream_end")
        IN /\ Cardinality(starts) <= 1
           /\ Cardinality(ends) <= 1
           /\ \A i \in Positions(s, "stream_word") \cup Positions(s, "stream_audio") :
                 /\ \E a \in starts : a < i
                 /\ \A b \in ends : i < b
           /\ StreamCompleted(c)
                 => /\ Cardinality(starts) = 1
                    /\ Cardinality(ends) = 1
                    /\ \A a \in starts : \A b \in ends : a < b

\* C6 witness: a call has completed for a text of two sentences, the speech call
\* of the first succeeded and that of the second failed.
C6_Witness ==
    \E c \in Conns :
        /\ StreamCompleted(c)
        /\ Len(ttsLog[c]) = 2
        /\ ttsLog[c][1].ok
        /\ ~ttsLog[c][2].ok
        /\ Positions(sent[c], "stream_audio") # {}

\* A character that is no decoration character.
IsPlainChar(ch) == ch \notin {"*", "#", Backquote}

\* A text without its decoration characters.
Undecorated(t) == SelectSeq(t, IsPlainChar)

\* C7: the fullText of the stream_end event is the response text with every
\* "*", "#" and backquote removed.
C7_FullTextUndecorated ==
    \A c \in Conns :
        \A i \in Positions(sent[c], "stream_end") :
            sent[c][i].fullText = Undecorated(text[c])

\* The word fields of the stream_word events of a sequence of events, joined.
RECURSIVE JoinedWords(_)
JoinedWords(s) ==
    IF s = <<>> THEN <<>>
    ELSE (IF Head(s).type = "stream_word" THEN Head(s).word ELSE <<>>) \o JoinedWords(Tail(s))

\* C8: the word fields of the stream_word events of a completed stream, joined in
\* the order sent, are the undecorated text with its spacing as it was (here:
\* apart from whitespace at the two ends of the text).
C8_WordsReconstructText ==
    \A c \in Conns :
        StreamCompleted(c) => JoinedWords(sent[c]) = Strip(Undecorated(text[c]))

\* The number of the sentence an event at position i belongs to: a stream_word
\* with index 0 opens a sentence.
SentenceOf(s, i) ==
    Cardinality({j \in 1..i : s[j].type = "stream_word" /\ s[j].index = 0})

\* C9: for each sentence of a stream, when its speech call failed every
\* stream_word event of the sentence has delay 100 and the sentence has no
\* stream_audio event; when it succeeded every stream_word event of the sentence
\* has delay 350, and, the stream having completed, the sentence has exactly one
\* stream_audio event.
C9_DelayAndAudioFollowSynthesis ==
    \A c \in Conns :
        LET s == sent[c]
            log == ttsLog[c]
            words == Positions(s, "stream_word")
            audios == Positions(s, "stream_audio")
        IN /\ \A i \in words \cup audios : SentenceOf(s, i) \in 1..Len(log)
           /\ \A i \in words :
                 s[i].delay = IF log[SentenceOf(s, i)].ok THEN 350 ELSE 100
           /\ \A i \in audios : log[SentenceOf(s, i)].ok
           /\ \A k \in 1..Len(log) :
                 Cardinality({i \in audios : SentenceOf(s, i) = k}) <= 1
           /\ StreamCompleted(c)
                 => \A k \in 1..Len(log) :
                       /\ {i \in words : SentenceOf(s, i) = k} # {}
                       /\ log[k].ok
                             => Cardinality({i \in audios : SentenceOf(s, i) = k}) = 1

\* C9 witness: a completed stream of two sentences, the first spoken (delay 350,
\* one audio event), the second not (delay 100).
C9_Witness ==
    \E c \in Conns :
        /\ StreamCompleted(c)
        /\ Len(ttsLog[c]) = 2
        /\ ttsLog[c][1].ok
        /\ ~ttsLog[c][2].ok
        /\ \E i, j \in Positions(sent[c], "stream_word") :
              /\ i < j
              /\ sent[c][i].delay = 350
              /\ sent[c][j].delay = 100
        /\ Cardinality(Positions(sent[c], "stream_audio")) = 1

\* A sentence that is not blank.
IsSpoken(sentence) == HasVisibleChar(sentence)

\* C10: a failed speech call never produces an error event and never stops the
\* stream: the speech calls made are, in order, those of the sentences of the
\* text, one each; as long as no send has failed the call is not left by an
\* exception; and a call that returns with no send failed has made the speech
\* call of every sentence and sent stream_end, whatever the speech calls did.
C10_SynthesisFailureIsContained ==
    \A c \in Conns :
        LET spoken == SelectSeq(SplitSentences(CleanText(text[c])), IsSpoken)
            log == ttsLog[c]
        IN /\ Len(log) <= Len(spoken)
           /\ \A k \in 1..Len(log) : log[k].input = spoken[k]
           /\ Positions(sent[c], "error") = {}
           /\ sendFailures[c] = 0 => pc[c] \notin {"error", "done", "crashed"}
           /\ (pc[c] \in {"ind_stop", "recv"} /\ sendFailures[c] = 0)
                 => /\ Len(log) = Len(spoken)
                    /\ Positions(sent[c], "stream_end") # {}

\* C10 witness: a stream has completed although the speech call of its first
\* sentence failed; the second sentence was spoken.
C10_Witness ==
    \E c \in Conns :
        /\ StreamCompleted(c)
        /\ Len(ttsLog[c]) = 2
        /\ ~ttsLog[c][1].ok
        /\ ttsLog[c][2].ok
        /\ Positions(sent[c], "stream_end") # {}
        /\ Positions(sent[c], "stream_audio") # {}

\* The handler of connection c is running / ends in this step.
Live(c) == pc[c] \notin {"idle", "done", "crashed"}
Finishes(c) == Live(c) /\ pc'[c] \in {"done", "crashed"}

\* C11: when the handler of a connection whose client has disconnected ends,
\* the map holds no entry for its session id, and the entries of the other
\* session ids are what they were.
C11_DisconnectRemovesEntry ==
    [][\A c \in Conns :
          (Finishes(c) /\ transport[c] = "closed")
              => /\ SessionId(c) \notin DOMAIN conversations'
                 /\ \A sid \in DOMAIN conversations \ {SessionId(c)} :
                        /\ sid \in DOMAIN conversations'
                        /\ conversations'[sid] = conversations[sid]]_vars

\* C12: whenever a handler has ended, normally or not, the map holds no entry
\* for its connection.
C12_NoEntryOutlivesConnection ==
    \A c \in Conns :
        pc[c] \in {"done", "crashed"} => SessionId(c) \notin DOMAIN conversations

\* The event is the indicator event with the given content.
IsIndicator(ev, on) == ev.type \in {"typing", "processing"} /\ ev.content = on

\* C13: one turn at a time per connection. A frame is read only while the
\* handler waits at its receive, and if the events since the previous frame are
\* those of a turn, the last of them is the indicator-stop; within the events
\* of one frame there is at most one indicator-start, and once the
\* indicator-stop is sent nothing is sent until the next frame is read.
C13_OneTurnInFlight ==
    [][\A c \in Conns :
          /\ ReadsFrame(c)
                => /\ pc[c] = "recv"
                   /\ TurnStarted(c) => IsIndicator(sent[c][Len(sent[c])], FALSE)
          /\ Cardinality({i \in 1..Len(sent'[c]) : IsIndicator(sent'[c][i], TRUE)}) <= 1
          /\ (\E i \in 1..Len(sent[c]) : IsIndicator(sent[c][i], FALSE))
                => (ReadsFrame(c) \/ sent'[c] = sent[c])]_vars

\* C13 witness: the second turn of a connection has sent its indicator-start,
\* after a first turn that called the agent and ran to its indicator-stop.
C13_Witness ==
    \E c \in Conns :
        /\ framesRead[c] = 2
        /\ agentCalls[c] = 2
        /\ pc[c] = "agent"
        /\ sent[c] = <<IndicatorEvent(kind[c], TRUE)>>

\* C14: after the first send of a connection that fails because the transport
\* is closed, no other send is attempted on it: no connection ever has more
\* than one failed send.
C14_NoSendAfterFailedSend ==
    \A c \in Conns : sendFailures[c] <= 1

\* The exception of the current loop pass of c is the one Runner.run raised.
AgentFailed(c) == err[c] = "AgentError"

\* C15: a failed agent call is answered with exactly one error event and the
\* handler goes on. The failure takes the handler to the error send; on an open
\* transport that send delivers the error event and the indicator-stop follows,
\* so that back at the receive the events of the turn are indicator-start, one
\* error event, indicator-stop; and the next frame with a non-blank text starts
\* a turn like any other (user message appended, indicator-start next).
C15_AgentFailureKeepsConnection ==
    [][\A c \in Conns :
          /\ (pc[c] = "agent" /\ err'[c] = "AgentError") => pc'[c] = "error"
          /\ (AgentFailed(c) /\ transport[c] = "open" /\ pc'[c] # pc[c])
                => \/ /\ pc[c] = "error"
                      /\ pc'[c] = "ind_stop"
                      /\ sent'[c] = Append(sent[c], ErrorEvent(kind[c], "AgentError"))
                   \/ /\ pc[c] = "ind_stop"
                      /\ pc'[c] = "recv"
                      /\ sent'[c] = <<IndicatorEvent(kind[c], TRUE),
                                      ErrorEvent(kind[c], "AgentError"),
                                      IndicatorEvent(kind[c], FALSE)>>
                   \/ /\ pc[c] = "recv"
                      /\ ReadsFrame(c)
                      /\ (frame'[c].kind = "json" /\ HasVisibleChar(frame'[c].content))
                            => /\ pc'[c] = "ind_start"
                               /\ conversations'[SessionId(c)] =
                                      Append(conversations[SessionId(c)],
                                             [role |-> "user", content |-> frame'[c].content])
          /\ AgentFailed(c)
                => /\ Cardinality(Positions(sent[c], "error")) <= 1
                   /\ pc[c] \notin {"done", "crashed"}]_vars

\* C15 witness: the first turn of a connection failed in the agent call, the
\* second one has its answer: the transcript holds both user messages and the
\* one answer, and the second agent call has returned.
C15_Witness ==
    \E c \in Conns :
        /\ agentCalls[c] = 2
        /\ pc[c] \in {"respond", "s_start"}
        /\ sret[c] # "welcome"
        /\ SessionId(c) \in DOMAIN conversations
        /\ Len(conversations[SessionId(c)]) = 3
        /\ conversations[SessionId(c)][1].role = "user"
        /\ conversations[SessionId(c)][2].role = "user"
        /\ conversations[SessionId(c)][3].role = "assistant"

\* The handler of c executes the send of the error event in this step.
EmitsError(c) == pc[c] = "error" /\ pc'[c] # "error"

\* C16: whenever the error event of a turn is emitted, the transcript ends with
\* the user message of that turn: it is the transcript the agent was called
\* with, no assistant message has been added for the turn, whether the failure
\* was the agent call or came after the agent had returned.
C16_ErrorLeavesNoAssistantMessage ==
    [][\A c \in Conns :
          EmitsError(c)
              => /\ SessionId(c) \in DOMAIN conversations
                 /\ conversations[SessionId(c)] = agentInput[c]
                 /\ agentInput[c][Len(agentInput[c])] =
                        [role |-> "user", content |-> frame[c].content]]_vars

\* C17: opening a session for a session id the map already holds fails with a
\* duplicate-session error: the handler that tries it ends at once and the map,
\* the existing transcript included, is what it was.
C17_DuplicateSessionRejected ==
    [][\A c \in Conns :
          (pc[c] = "idle" /\ pc'[c] # "idle" /\ SessionId(c) \in DOMAIN conversations)
              => /\ conversations' = conversations
                 /\ pc'[c] = "crashed"
                 /\ err'[c] = "DuplicateSession"]_vars

\* The handler of c takes a step.
Acts(c) ==
    <<pc[c], sent[c], framesRead[c], agentCalls[c], sendFailures[c]>>
        # <<pc'[c], sent'[c], framesRead'[c], agentCalls'[c], sendFailures'[c]>>

\* C18: connections are isolated. A step of the handler of one connection
\* leaves every entry of the map but its own as it was, and the step that opens
\* a connection leaves the shopping cart as it was.
C18_ConnectionsIsolated ==
    [][\A c \in Conns :
          /\ Acts(c)
                => \A sid \in DOMAIN conversations \ {SessionId(c)} :
                       /\ sid \in DOMAIN conversations'
                       /\ conversations'[sid] = conversations[sid]
          /\ (pc[c] = "idle" /\ pc'[c] # "idle") => shopping_cart' = shopping_cart]_vars

\* C19: the transcript of a connection is append-only while its handler runs:
\* from accept to the end of the handler every step leaves the transcript as it
\* is or adds one message at its end.
C19_TranscriptAppendOnly ==
    [][\A c \in Conns :
          (Live(c) /\ pc'[c] \notin {"done", "crashed"})
              => LET old == conversations[SessionId(c)]
                     new == conversations'[SessionId(c)]
                 IN /\ SessionId(c) \in DOMAIN conversations
                    /\ SessionId(c) \in DOMAIN conversations'
                    /\ \/ new = old
                       \/ /\ Len(new) = Len(old) + 1
                          /\ SubSeq(new, 1, Len(old)) = old]_vars

\* C19 witness: a transcript that has grown over two turns: user message,
\* answer, user message, in a handler that is still running.
C19_Witness ==
    \E c \in Conns :
        /\ Live(c)
        /\ SessionId(c) \in DOMAIN conversations
        /\ Len(conversations[SessionId(c)]) = 3
        /\ conversations[SessionId(c)][2].role = "assistant"
        /\ conversations[SessionId(c)][3].role = "user"

\* C20: every agent call is given the whole transcript of the connection as it
\* is at the call, in order: it ends with the user message of the frame just
\* read, it starts with the input of the previous call (so it keeps the user
\* messages of earlier turns, answered or not), and it holds one user message
\* for every call made so far.
C20_AgentGetsFullTranscript ==
    [][\A c \in Conns :
          InvokesAgent(c)
              => LET input == agentInput'[c] IN
                 /\ input = conversations[SessionId(c)]
                 /\ input[Len(input)] = [role |-> "user", content |-> frame[c].content]
                 /\ Len(input) > Len(agentInput[c])
                 /\ SubSeq(input, 1, Len(agentInput[c])) = agentInput[c]
                 /\ RoleCount(input, "user") = agentCalls'[c]]_vars

\* C20 witness: the second agent call of a connection whose first call failed
\* is running, with both user messages as its input.
C20_Witness ==
    \E c \in Conns :
        /\ pc[c] = "agent"
        /\ agentCalls[c] = 2
        /\ Len(agentInput[c]) = 2
        /\ agentInput[c][1].role = "user"
        /\ agentInput[c][2].role = "user"

\* The events of the given type of a sequence of events, in the order sent.
EventsOfType(s, type) == SelectSeq(s, LAMBDA ev : ev.type = type)

\* The word fields the stream of a text sends when nothing fails: the words of
\* its sentences that are not blank, each but the last of its sentence with a
\* space after it.
RECURSIVE WordFields(_, _)
WordFields(sents, i) ==
    IF i > Len(sents) THEN <<>>
    ELSE (IF IsBlank(sents[i]) THEN <<>>
          ELSE [k \in 1..Len(SplitWords(sents[i])) |-> WordText(SplitWords(sents[i]), k)])
         \o WordFields(sents, i + 1)

\* C21: the step that accepts a connection registers its session with an empty
\* transcript, having sent nothing; and when the first frame is read the events
\* sent so far are the welcome: one assistant event with the welcome text on
\* the text endpoints, and on the voice endpoint one stream_start, the
\* stream_word events of all words of the welcome text in order (with
\* stream_audio events only in between), and one stream_end as the last event.
C21_WelcomeBeforeFirstFrame ==
    [][\A c \in Conns :
          /\ (pc[c] = "idle" /\ pc'[c] # "idle")
                => /\ SessionId(c) \in DOMAIN conversations'
                   /\ conversations'[SessionId(c)] = <<>>
                   /\ sent'[c] = <<>>
                   /\ framesRead'[c] = 0
          /\ (ReadsFrame(c) /\ framesRead[c] = 0)
                => IF kind[c] = "voice"
                   THEN LET s == sent[c]
                            welcome == WelcomeText("voice")
                        IN /\ Len(s) >= 2
                           /\ s[1] = StreamStartEvent
                           /\ s[Len(s)] = StreamEndEvent(welcome)
                           /\ Positions(s, "stream_start") = {1}
                           /\ Positions(s, "stream_end") = {Len(s)}
                           /\ \A i \in 2..(Len(s) - 1) :
                                  s[i].type \in {"stream_word", "stream_audio"}
                           /\ [k \in 1..Len(EventsOfType(s, "stream_word")) |->
                                   EventsOfType(s, "stream_word")[k].word]
                                  = WordFields(SplitSentences(CleanText(welcome)), 1)
                   ELSE sent[c] = <<AssistantEvent(WelcomeText(kind[c]))>>]_vars

\* C21 witness: a voice connection has read its first frame after a welcome
\* stream that took both branches (one sentence spoken, one not).
C21_Witness ==
    \E c \in Conns :
        /\ kind[c] = "voice"
        /\ framesRead[c] = 1
        /\ pc[c] = "ind_start"
        /\ Len(ttsLog[c]) = 2
        /\ ttsLog[c][1].ok
        /\ ~ttsLog[c][2].ok

\* a is a beginning of b.
IsPrefix(a, b) == Len(a) <= Len(b) /\ SubSeq(b, 1, Len(a)) = a

\* The stream_word and stream_audio events of the sentences of a speech log,
\* as the claims describe them: per sentence one stream_word event per word,
\* index 0, 1, ..., and after the words of a sentence that was spoken one
\* stream_audio event with the number of its words.
RECURSIVE SentenceEvents(_, _)
SentenceEvents(log, k) ==
    IF k > Len(log) THEN <<>>
    ELSE LET words == SplitWords(log[k].input)
             n == Len(words)
         IN [i \in 1..n |->
                [type |-> "stream_word",
                 word |-> words[i] \o (IF i < n THEN <<" ">> ELSE <<>>),
                 index |-> i - 1,
                 delay |-> IF log[k].ok THEN 350 ELSE 100]]
            \o (IF log[k].ok
                THEN <<[type |-> "stream_audio", audio |-> log[k].input,
                        format |-> "mp3", wordCount |-> n]>>
                ELSE <<>>)
            \o SentenceEvents(log, k + 1)

\* The stream_word and stream_audio events sent, in the order sent.
StreamBody(s) == SelectSeq(s, LAMBDA ev : ev.type \in {"stream_word", "stream_audio"})

\* C22: the stream_word and stream_audio events of a stream are, sentence by
\* sentence in the order of the text, the events of each sentence in one piece:
\* for a sentence that was spoken one stream_word event per word in word order
\* with index 0, 1, ..., n-1, then one stream_audio event with wordCount n. At
\* every moment the events sent are a beginning of that sequence, and they are
\* the whole of it when the stream has completed.
C22_SentenceEventsInOrder ==
    \A c \in Conns :
        LET body == StreamBody(sent[c])
            expected == SentenceEvents(ttsLog[c], 1)
        IN /\ IsPrefix(body, expected)
           /\ (StreamCompleted(c) /\ Positions(sent[c], "stream_end") # {})
                 => body = expected

\* C22 witness: a completed stream of two spoken sentences, the index of the
\* stream_word events starting at 0 twice.
C22_Witness ==
    \E c \in Conns :
        /\ StreamCompleted(c)
        /\ Len(ttsLog[c]) = 2
        /\ ttsLog[c][1].ok
        /\ ttsLog[c][2].ok
        /\ Cardinality(Positions(sent[c], "stream_audio")) = 2
        /\ Cardinality({i \in Positions(sent[c], "stream_word") : sent[c][i].index = 0}) = 2

\* C23: every stream_word event carries a word exactly as it stands in the
\* original response text, decoration characters included: its word field,
\* without the space added after it, is one of the words of the text.
C23_WordsAsInOriginal ==
    \A c \in Conns :
        \A i \in Positions(sent[c], "stream_word") :
            \E k \in 1..Len(SplitWords(text[c])) :
                RStrip(sent[c][i].word) = SplitWords(text[c])[k]

\* C24: the 100 ms pause follows every processed sentence, whatever branch it
\* took: the loop leaves a sentence, for the next one or for the stream_end
\* send, only by the step that sleeps.
C24_PauseAfterEverySentence ==
    [][\A c \in Conns :
          (pc[c] \in {"s_tts", "s_word", "s_audio", "s_sleep", "s_fword"}
               /\ pc'[c] \in {"s_tts", "s_end"}
               /\ sidx'[c] # sidx[c])
              => pc[c] = "s_sleep"]_vars

\* C25: the speech call is made at most once per sentence, only for sentences
\* with a character that is not whitespace, in the order of the sentences;
\* every stream_audio event has a wordCount of at least 1; and for a text that
\* is blank once its decoration is removed there is no speech call and no
\* stream_word or stream_audio event, the completed stream being stream_start
\* followed by stream_end.
C25_SpeechOnlyForVisibleSentences ==
    \A c \in Conns :
        LET sents == SplitSentences(CleanText(text[c]))
            log == ttsLog[c]
            s == sent[c]
        IN /\ \E f \in [1..Len(log) -> 1..Len(sents)] :
                  /\ \A k \in 1..Len(log) : log[k].input = sents[f[k]]
                  /\ \A k \in 1..(Len(log) - 1) : f[k] < f[k + 1]
           /\ \A k \in 1..Len(log) : HasVisibleChar(log[k].input)
           /\ \A i \in Positions(s, "stream_audio") : s[i].wordCount >= 1
           /\ ~HasVisibleChar(CleanText(text[c]))
                 => /\ log = <<>>
                    /\ StreamBody(s) = <<>>
                    /\ StreamCompleted(c)
                          => /\ Cardinality(Positions(s, "stream_start")) = 1
                             /\ \A i \in Positions(s, "stream_start") :
                                    /\ i + 1 = Len(s)
                                    /\ s[i + 1].type = "stream_end"

\* C25 witness: the stream of a text that is not empty but blank without its
\* decoration has completed.
C25_Witness ==
    \E c \in Conns :
        /\ StreamCompleted(c)
        /\ text[c] # <<>>
        /\ ~HasVisibleChar(CleanText(text[c]))
        /\ Positions(sent[c], "stream_end") # {}

\* C26: while a handler runs, its transcript, if it is not empty, starts with a
\* user message, has no two assistant messages next to each other, and has at
\* most as many assistant messages as user messages.
C26_TranscriptShape ==
    \A c \in Conns :
        Live(c)
            => /\ SessionId(c) \in DOMAIN conversations
               /\ LET tr == conversations[SessionId(c)] IN
                  /\ tr # <<>> => tr[1].role = "user"
                  /\ \A i \in 1..(Len(tr) - 1) :
                         ~(tr[i].role = "assistant" /\ tr[i + 1].role = "assistant")
                  /\ \A i \in 1..Len(tr) : tr[i].role \in {"user", "assistant"}
                  /\ RoleCount(tr, "assistant") <= RoleCount(tr, "user")

\* C26 witness: the transcript of a running handler after two answered turns.
C26_Witness ==
    \E c \in Conns :
        /\ Live(c)
        /\ SessionId(c) \in DOMAIN conversations
        /\ Len(conversations[SessionId(c)]) = 4
        /\ conversations[SessionId(c)][2].role = "assistant"
        /\ conversations[SessionId(c)][4].role = "assistant"

\* C27: the welcome is not recorded. The transcript of a running handler is
\* empty as long as no agent call has been made and no user message is waiting
\* for one; the step that makes it non-empty is the read of a frame with a
\* non-blank text and leaves it with that one user message; and the first
\* agent call gets exactly that one user message.
C27_WelcomeNotInTranscript ==
    [][\A c \in Conns :
          /\ (Live(c) /\ agentCalls[c] = 0 /\ pc[c] # "ind_start")
                => /\ SessionId(c) \in DOMAIN conversations
                   /\ conversations[SessionId(c)] = <<>>
          /\ (Live(c) /\ SessionId(c) \in DOMAIN conversations
                 /\ SessionId(c) \in DOMAIN conversations'
                 /\ conversations[SessionId(c)] = <<>>
                 /\ conversations'[SessionId(c)] # <<>>)
                => /\ ReadsFrame(c)
                   /\ frame'[c].kind = "json"
                   /\ HasVisibleChar(frame'[c].content)
                   /\ conversations'[SessionId(c)] =
                          <<[role |-> "user", content |-> frame'[c].content]>>
          /\ (InvokesAgent(c) /\ agentCalls[c] = 0)
                => agentInput'[c] = <<[role |-> "user", content |-> frame[c].content]>>]_vars

\* C27 witness: the first agent call of a voice connection is running, after
\* the welcome stream and a blank frame, with the one user message as input.
C27_Witness ==
    \E c \in Conns :
        /\ kind[c] = "voice"
        /\ pc[c] = "agent"
        /\ agentCalls[c] = 1
        /\ framesRead[c] = 2
        /\ Len(agentInput[c]) = 1
        /\ agentInput[c][1].role = "user"

\* The cart has at most one entry per product id and every entry is one of a
\* product of the catalog that is in stock.
CartWellFormed(cart) ==
    /\ \A i, j \in 1..Len(cart) : cart[i].id = cart[j].id => i = j
    /\ \A i \in 1..Len(cart) : cart[i].id \in DOMAIN InStock /\ InStock[cart[i].id]

\* C28: whatever cart tools have been called, the cart has at most one entry
\* per product id, each of an existing product that is in stock; adding a
\* product that is in the cart raises the quantity of its entry and adds no
\* entry; and the cart is empty directly after clear_cart and after checkout
\* of a cart that is not empty.
C28_CartWellFormed ==
    /\ CartWellFormed(shopping_cart)
    /\ clear_cart(shopping_cart) = <<>>
    /\ shopping_cart # <<>> => checkout(shopping_cart) = <<>>
    /\ \A id \in ProductArgs, q \in 1..MaxQuantity :
           LET after == add_to_cart(shopping_cart, id, q)
               i == CartIndex(shopping_cart, Upper(id))
           IN /\ CartWellFormed(after)
              /\ i # 0 => /\ Len(after) = Len(shopping_cart)
                          /\ after[i].quantity = shopping_cart[i].quantity + q
    /\ \A id \in ProductArgs : CartWellFormed(remove_from_cart(shopping_cart, id))

\* C28 witness: the cart holds an entry whose quantity was raised by a second
\* add_to_cart of the same product, next to an entry of another product.
C28_Witness ==
    /\ Len(shopping_cart) = 2
    /\ shopping_cart[1].quantity = 2
    /\ shopping_cart[1].id # shopping_cart[2].id

====
